---------------------------- MODULE Spec2Model ----------------------------
(***************************************************************************)
(* A model of script.js, the interactive radio map: the loader of the      *)
(* spreadsheet tabs, the transform into the roster and the per-date        *)
(* content, the date/station selection handlers and the audio transport.   *)
(*                                                                         *)
(* Text is a sequence of one-character strings.  A JavaScript object is a  *)
(* function from its own keys to their values; reading a key the object    *)
(* does not own gives Undefined.                                           *)
(***************************************************************************)
EXTENDS Integers, Sequences, FiniteSets, TLC

(***************************************************************************)
(* Bounds of the model.                                                    *)
(***************************************************************************)
\* the Master tab of the modelled spreadsheets lists at most this many stations
MaxStations == 2
\* the clip of every modelled entry lasts this many position steps
MaxTime == 2
\* the volume slider has this many steps from 0 to full volume
SliderSteps == 4
\* at most this many timers that hide the volume panel are pending at a time
MaxTimers == 2
\* a cell value of the tables that try the parser has at most this many characters
MaxValueLen == 2
\* the one-shot error listeners on the media element are counted up to this many
MaxListeners == 2

(***************************************************************************)
(* Text and values.                                                        *)
(***************************************************************************)
Digits == <<"0", "1", "2", "3", "4", "5", "6", "7", "8", "9">>

\* JavaScript's undefined: a value no text is equal to
Undefined == <<"undefined">>

\* Number.NaN: a value no number of the model is equal to
NaN == <<"NaN">>

\* the text `undefined`, which is the property key undefined is converted to
UndefinedKey == <<"u", "n", "d", "e", "f", "i", "n", "e", "d">>

\* obj[key] of JavaScript
Get(obj, key) ==
    LET k == IF key = Undefined THEN UndefinedKey ELSE key
    IN  IF k \in DOMAIN obj THEN obj[k] ELSE Undefined

\* whether obj owns key: what a condition on obj[key] tests when the values of
\* obj are objects
Has(obj, key) == (IF key = Undefined THEN UndefinedKey ELSE key) \in DOMAIN obj

\* obj[key] = value of JavaScript, as the object after the assignment
Put(obj, key, value) ==
    LET k == IF key = Undefined THEN UndefinedKey ELSE key
    IN  [x \in (DOMAIN obj) \cup {k} |-> IF x = k THEN value ELSE obj[x]]

\* an object that owns no key
EmptyObject == [x \in {} |-> Undefined]

\* String.prototype.trim for the white space of the model, the blank
RECURSIVE TrimLeft(_)
TrimLeft(s) ==
    IF s # <<>> /\ Head(s) = " " THEN TrimLeft(Tail(s)) ELSE s

RECURSIVE TrimRight(_)
TrimRight(s) ==
    IF s # <<>> /\ s[Len(s)] = " " THEN TrimRight(SubSeq(s, 1, Len(s) - 1)) ELSE s

Trim(s) == TrimRight(TrimLeft(s))

\* whether text s has pattern p at position i
MatchAt(s, p, i) ==
    /\ i + Len(p) - 1 <= Len(s)
    /\ \A k \in 1..Len(p) : s[i + k - 1] = p[k]

\* s.replace(p, r) for a text pattern p: the first occurrence only
Replace(s, p, r) ==
    LET hits == {i \in 1..Len(s) : MatchAt(s, p, i)}
    IN  IF hits = {} THEN s
        ELSE LET i == CHOOSE h \in hits : \A g \in hits : h <= g
             IN  SubSeq(s, 1, i - 1) \o r \o SubSeq(s, i + Len(p), Len(s))

\* s.split("\n")
RECURSIVE SplitLines(_)
SplitLines(s) ==
    LET hits == {i \in 1..Len(s) : s[i] = "\n"}
    IN  IF hits = {} THEN <<s>>
        ELSE LET i == CHOOSE h \in hits : \A g \in hits : h <= g
             IN  <<SubSeq(s, 1, i - 1)>> \o SplitLines(SubSeq(s, i + 1, Len(s)))

(***************************************************************************)
(* The tabular parser.                                                     *)
(***************************************************************************)
\* as csvSplitFrom, but a quote character is content and every comma ends a field
RECURSIVE csvSplitNaive(_, _, _, _, _)
csvSplitNaive(row, i, inQuotes, currentField, result) ==
    IF i > Len(row) THEN Append(result, currentField)
    ELSE IF row[i] = "," THEN
        csvSplitNaive(row, i + 1, inQuotes, <<>>, Append(result, currentField))
    ELSE
        csvSplitNaive(row, i + 1, inQuotes, Append(currentField, row[i]), result)

\* the loop of csvSplit from character i on, with the fields closed so far
RECURSIVE csvSplitFrom(_, _, _, _, _)
csvSplitFrom(row, i, inQuotes, currentField, result) ==
    IF i > Len(row) THEN Append(result, currentField)
    ELSE IF row[i] = "\"" THEN
        csvSplitFrom(row, i + 1, ~inQuotes, currentField, result)
    ELSE IF row[i] = "," /\ ~inQuotes THEN
        csvSplitFrom(row, i + 1, inQuotes, <<>>, Append(result, currentField))
    ELSE
        csvSplitFrom(row, i + 1, inQuotes, Append(currentField, row[i]), result)

csvSplit(row) == csvSplitFrom(row, 1, FALSE, <<>>, <<>>)

\* propertyNames[j] of csvToObjects: undefined beyond the header's fields
PropertyName(propertyNames, j) ==
    IF j <= Len(propertyNames) THEN propertyNames[j] ELSE Undefined

\* the inner loop of csvToObjects: the object of one row, from field j on
RECURSIVE RowObject(_, _, _, _)
RowObject(propertyNames, row, j, thisObject) ==
    IF j > Len(row) THEN thisObject
    ELSE RowObject(propertyNames, row, j + 1,
                   Put(thisObject, PropertyName(propertyNames, j), row[j]))

csvToObjects(csv) ==
    LET csvRows == SplitLines(csv)
        propertyNames == csvSplit(csvRows[1])
    IN  [i \in 1..(Len(csvRows) - 1) |->
            RowObject(propertyNames, csvSplit(csvRows[i + 1]), 1, EmptyObject)]


(***************************************************************************)
(* Numbers.  A number is <<m, k>>, standing for m / 10^k with k as small   *)
(* as it can be, or NaN.                                                   *)
(***************************************************************************)
IsDigit(c) == \E d \in 1..10 : Digits[d] = c

DigitValue(c) == (CHOOSE d \in 1..10 : Digits[d] = c) - 1

\* the number of digits of s from position i on, up to the first non-digit
RECURSIVE DigitRun(_, _)
DigitRun(s, i) ==
    IF i <= Len(s) /\ IsDigit(s[i]) THEN 1 + DigitRun(s, i + 1) ELSE 0

\* the value of a text of digits
RECURSIVE DigitsValue(_)
DigitsValue(s) ==
    IF s = <<>> THEN 0
    ELSE 10 * DigitsValue(SubSeq(s, 1, Len(s) - 1)) + DigitValue(s[Len(s)])

RECURSIVE Normalise(_, _)
Normalise(m, k) ==
    IF k > 0 /\ m % 10 = 0 THEN Normalise(m \div 10, k - 1) ELSE <<m, k>>

\* parseFloat of JavaScript, for text over digits, sign, point, blank and other
\* characters that start no number (the model's texts hold no exponent and no
\* `Infinity`): white space is skipped, then the longest prefix that is a decimal
\* literal is the value, and whatever follows it is ignored.
parseFloat(text) ==
    IF text = Undefined THEN NaN
    ELSE
    LET s == TrimLeft(text)
        signLen == IF s # <<>> /\ s[1] \in {"+", "-"} THEN 1 ELSE 0
        negative == signLen = 1 /\ s[1] = "-"
        a == signLen + 1
        n1 == DigitRun(s, a)
        hasPoint == a + n1 <= Len(s) /\ s[a + n1] = "."
        n2 == IF hasPoint THEN DigitRun(s, a + n1 + 1) ELSE 0
        magnitude == DigitsValue(SubSeq(s, a, a + n1 - 1) \o
                                 SubSeq(s, a + n1 + 1, a + n1 + n2))
    IN  IF n1 + n2 = 0 THEN NaN
        ELSE Normalise(IF negative THEN 0 - magnitude ELSE magnitude, n2)

(***************************************************************************)
(* The configuration and the field names of the spreadsheet.               *)
(***************************************************************************)
Master == <<"M", "a", "s", "t", "e", "r">>
Feb == <<"F", "e", "b">>
Feb22 == Feb \o <<"2", "2">>
Feb23 == Feb \o <<"2", "3">>
Feb24 == Feb \o <<"2", "4">>
Feb25 == Feb \o <<"2", "5">>

sheetTabs == <<Master, Feb22, Feb23, Feb24, Feb25>>

\* the tabs as a set, and the date tabs among them
Tabs == {sheetTabs[i] : i \in 1..Len(sheetTabs)}
DateTabs == Tabs \ {Master}

KeyId == <<"i", "d">>
KeyName == <<"n", "a", "m", "e">>
KeyLat == <<"l", "a", "t">>
KeyLng == <<"l", "n", "g">>
KeyDescription == <<"d", "e", "s", "c", "r", "i", "p", "t", "i", "o", "n">>
KeyIcon == <<"i", "c", "o", "n">>
KeyAudioUrl == <<"a", "u", "d", "i", "o", "U", "r", "l">>

February == <<"F", "e", "b", "r", "u", "a", "r", "y", " ">>
ContextText == <<"c", "o", "n", "t", "e", "x", "t">>
NoDescription == <<"N", "o", " ", "d", "e", "s", "c", "r", "i", "p", "t", "i", "o", "n",
                   " ", "a", "v", "a", "i", "l", "a", "b", "l", "e">>
NoAudio == <<"#">>

\* whether a value counts as true in a condition: neither undefined nor empty text
Truthy(v) == v # Undefined /\ v # <<>>

\* a || b of JavaScript
OrElse(a, b) == IF Truthy(a) THEN a ELSE b

(***************************************************************************)
(* The data transformer.                                                   *)
(***************************************************************************)
\* the roster that transformSheetData builds from the Master records
TransformStations(allSheets) ==
    LET master == allSheets[Master]
    IN  [i \in 1..Len(master) |->
            [id          |-> Get(master[i], KeyId),
             name        |-> Get(master[i], KeyName),
             lat         |-> parseFloat(Get(master[i], KeyLat)),
             lng         |-> parseFloat(Get(master[i], KeyLng)),
             description |-> Get(master[i], KeyDescription),
             icon        |-> Get(master[i], KeyIcon)]]

\* as HasStationId, but the id is not trimmed
HasStationIdUntrimmed(stationData) == Truthy(Get(stationData, KeyId))

\* whether a record of a date tab makes a station entry
HasStationId(stationData) ==
    LET id == Get(stationData, KeyId)
    IN  Truthy(id) /\ Trim(id) # <<>>

\* the stations object of one date tab after the records from i on are entered
RECURSIVE DateStations(_, _, _)
DateStations(dateData, i, stationsObject) ==
    IF i > Len(dateData) THEN stationsObject
    ELSE DateStations(dateData, i + 1,
            IF HasStationId(dateData[i])
            THEN Put(stationsObject, Get(dateData[i], KeyId),
                     [description |-> OrElse(Get(dateData[i], KeyDescription),
                                             NoDescription),
                      audioUrl    |-> OrElse(Get(dateData[i], KeyAudioUrl), NoAudio)])
            ELSE stationsObject)

\* the dateContent object after transformSheetData has gone through the tabs from i
\* on; it stops, throwing, at a date tab whose records allSheets does not hold
RECURSIVE TransformDates(_, _, _)
TransformDates(allSheets, i, content) ==
    IF i > Len(sheetTabs) THEN content
    ELSE LET tabName == sheetTabs[i]
             fresh == [title    |-> February \o Replace(tabName, Feb, <<>>),
                       context  |-> ContextText,
                       stations |-> EmptyObject]
         IN  IF tabName = Master THEN TransformDates(allSheets, i + 1, content)
             ELSE IF ~Has(allSheets, tabName) THEN Put(content, tabName, fresh)
             ELSE TransformDates(allSheets, i + 1,
                     Put(content, tabName,
                         [fresh EXCEPT !.stations =
                             DateStations(allSheets[tabName], 1, EmptyObject)]))

(***************************************************************************)
(* The state.                                                              *)
(*                                                                         *)
(* The popups of the markers and the tiles belong to the map library; of   *)
(* the map the model keeps the viewport.                                   *)
(***************************************************************************)
VARIABLES
    responses,    \* the remote tables: the text each retrieval answers with
    fetchState,   \* per tab, the promise of its retrieval: pending, done, failed
    results,      \* per tab, the value its promise was fulfilled with
    loadPc,       \* loadAllTabs: awaiting the join, done, or failed (the catch ran)
    stations,     \* the global roster
    dateContent,  \* the global per-date content
    page,         \* the elements of the document the script reads and writes
    audio,        \* the media element
    player,       \* isPlaying of initializeAudioPlayer and window.isPlaying
    map,          \* the viewport of the map
    volume,       \* the volume of the media element and the volume controls
    console,      \* the kind of the last message written to the console
    sessionStorage \* the item triggerWarningAccepted of the session's storage

vars == <<responses, fetchState, results, loadPc, stations, dateContent,
          page, audio, player, map, volume, console, sessionStorage>>

(***************************************************************************)
(* The remote spreadsheet: the tables the retrievals answer with.          *)
(***************************************************************************)
RECURSIVE Join(_, _)
Join(parts, sep) ==
    IF parts = <<>> THEN <<>>
    ELSE IF Len(parts) = 1 THEN parts[1]
    ELSE parts[1] \o sep \o Join(Tail(parts), sep)

\* the elements of a set of numbers in increasing order
RECURSIVE Ascending(_)
Ascending(S) ==
    IF S = {} THEN <<>>
    ELSE LET m == CHOOSE x \in S : \A y \in S : x <= y
         IN  <<m>> \o Ascending(S \ {m})

StationIdOf(i) == <<"s", Digits[i + 1]>>

\* an id that no Master row carries
ForeignId == <<"s", "x">>

\* the last character of a date tab's name tells the dates apart
DateMark(tab) == tab[Len(tab)]

MasterHeader == Join(<<KeyId, KeyName, KeyLat, KeyLng, KeyDescription, KeyIcon>>, <<",">>)

\* row i of Master; its description holds a comma and is quoted
MasterRow(i) ==
    Join(<<StationIdOf(i),
           <<"N", Digits[i + 1]>>,
           <<"1", "4", ".", Digits[i + 1]>>,
           <<"1", "2", "1">>,
           <<"\"", "m", ",", Digits[i + 1], "\"">>,
           <<"p", Digits[i + 1]>>>>, <<",">>)

MasterCsv(n) == Join(<<MasterHeader>> \o [i \in 1..n |-> MasterRow(i)], <<"\n">>)

DateHeader == Join(<<KeyId, KeyDescription, KeyAudioUrl>>, <<",">>)

DescriptionOf(tab, i) == <<"e", DateMark(tab), ",", Digits[i + 1]>>
AudioUrlOf(tab, i) == <<"u", DateMark(tab), Digits[i + 1]>>

DateRow(tab, i) ==
    Join(<<StationIdOf(i), <<"\"">> \o DescriptionOf(tab, i) \o <<"\"">>,
           AudioUrlOf(tab, i)>>, <<",">>)

ForeignRow(tab) ==
    Join(<<ForeignId, <<"x", DateMark(tab)>>, <<"v", DateMark(tab)>>>>, <<",">>)

\* a date tab with a row for each station of S and a row for the foreign id
DateCsv(tab, S) ==
    LET order == Ascending(S)
    IN  Join(<<DateHeader>> \o [k \in 1..Len(order) |-> DateRow(tab, order[k])]
                 \o <<ForeignRow(tab)>>, <<"\n">>)

SheetOf(n, has) ==
    [tab \in Tabs |-> IF tab = Master THEN MasterCsv(n) ELSE DateCsv(tab, has[tab])]

\* a set of stations as a number, to put the sets in an order
RECURSIVE SetCode(_)
SetCode(S) ==
    IF S = {} THEN 0
    ELSE LET m == CHOOSE x \in S : \A y \in S : x <= y
         IN  2 ^ m + SetCode(S \ {m})

\* The script treats the dates alike but for the first, the default.  Of the
\* assignments of entries that differ only by exchanging later dates, the one
\* with the later dates in the order of their sets stands for all.
Canonical(has) ==
    \A j \in 3..(Len(sheetTabs) - 1) :
        SetCode(has[sheetTabs[j]]) <= SetCode(has[sheetTabs[j + 1]])

\* the spreadsheets of the model: Master lists stations 1..n, and each date tab
\* has entries for any of them
SheetsOf(n) ==
    {SheetOf(n, has) : has \in {h \in [DateTabs -> SUBSET (1..n)] : Canonical(h)}}

Spreadsheets == UNION {SheetsOf(n) : n \in 0..MaxStations}

\* the spreadsheets of the selection handlers: those of Spreadsheets in which the
\* last two dates have entries for the same stations
SelectionSheets ==
    UNION {{SheetOf(n, has) :
               has \in {h \in [DateTabs -> SUBSET (1..n)] :
                           Canonical(h) /\ h[Feb24] = h[Feb25]}} :
           n \in 0..MaxStations}

\* the spreadsheet with every station under every date
FullSheet == SheetOf(MaxStations, [tab \in DateTabs |-> 1..MaxStations])

(***************************************************************************)
(* The state before the load: the script has run, the notice has been      *)
(* acknowledged, loadAllTabs has issued its retrievals and waits for them. *)
(***************************************************************************)
InitialPage ==
    [selectDate         |-> <<>>,
     stationList        |-> <<>>,
     active             |-> {},
     currentStationId   |-> Undefined,
     currentStationText |-> Undefined,
     stationDescription |-> Undefined,
     heading            |-> Undefined,
     contextTitle       |-> Undefined,
     contextText        |-> Undefined,
     playBtnText        |-> "markup",
     progress           |-> 0,
     durationText       |-> 0,
     dragging           |-> FALSE,
     modalDisplay       |-> "markup",
     understandListener |-> FALSE]

InitialAudio ==
    [src         |-> Undefined,
     loop        |-> FALSE,
     paused      |-> TRUE,
     currentTime |-> 0,
     pending     |-> FALSE,
     error       |-> FALSE,
     metadata    |-> FALSE,
     errorListeners |-> 0]

\* window.isPlaying does not exist before initializeAudioPlayer sets it to false;
\* nothing reads it before
InitialPlayer ==
    [isPlaying       |-> FALSE,
     windowIsPlaying |-> FALSE,
     isDragging      |-> FALSE,
     mousemove       |-> <<>>,
     mouseup         |-> <<>>]

\* Volumes are in hundredths of full volume.
FullVolume == 100
DefaultVolume == 70

\* the positions of the volume slider
SliderPositions == {(k * FullVolume) \div SliderSteps : k \in 0..SliderSteps}

\* the media element starts at full volume; where the slider starts is up to the
\* markup
InitialVolume(slider) ==
    [level        |-> FullVolume,
     slider       |-> slider,
     isMuted      |-> FALSE,
     lastVolume   |-> FullVolume,
     button       |-> "markup",
     panelVisible |-> FALSE,
     timers       |-> 0,
     latestTimer  |-> FALSE]

\* sessionStorage.getItem gives null for an item that was never set
NoItem == <<"null">>

\* the text the acknowledgement stores
AcceptedItem == <<"t", "r", "u", "e">>

\* the page once the notice is acknowledged: the modal is hidden, and its button
\* keeps the click listener
AcknowledgedPage ==
    [InitialPage EXCEPT !.modalDisplay = "none", !.understandListener = TRUE]

InitialMap == [center |-> <<<<145995, 4>>, <<1209842, 4>>>>, zoom |-> 10]

InitWith(sheets, sliders) ==
    /\ responses \in sheets
    /\ volume \in {InitialVolume(slider) : slider \in sliders}
    /\ fetchState = [tab \in Tabs |-> "pending"]
    /\ results = EmptyObject
    /\ loadPc = "awaiting"
    /\ stations = <<>>
    /\ dateContent = EmptyObject
    /\ page = AcknowledgedPage
    /\ sessionStorage = AcceptedItem
    /\ audio = InitialAudio
    /\ player = InitialPlayer
    /\ map = InitialMap
    /\ console = "none"

Init == InitWith(Spreadsheets, {FullVolume})

(***************************************************************************)
(* The handlers work on the part of the state they share, a record of the  *)
(* globals, the page, the media element, the player, the map and the       *)
(* console.                                                                *)
(***************************************************************************)
Current ==
    [stations |-> stations, dateContent |-> dateContent, page |-> page,
     audio |-> audio, player |-> player, map |-> map, volume |-> volume,
     console |-> console]

Becomes(s) ==
    /\ stations' = s.stations
    /\ dateContent' = s.dateContent
    /\ page' = s.page
    /\ audio' = s.audio
    /\ player' = s.player
    /\ map' = s.map
    /\ volume' = s.volume
    /\ console' = s.console

(***************************************************************************)
(* The media element, as the script uses it.                               *)
(***************************************************************************)
\* the catch of selectStation's play promise
AutoPlayPrevented(s) ==
    [s EXCEPT !.player.windowIsPlaying = FALSE,
              !.page.playBtnText = "Play",
              !.console = "autoPlayPrevented"]

\* the then of selectStation's play promise
AutoPlayStarted(s) ==
    [s EXCEPT !.player.windowIsPlaying = TRUE,
              !.page.playBtnText = "Pause"]

\* Loading a new source and pausing both reject the play promise that is still
\* pending; its catch runs as soon as the running handler has returned.
AbortPending(s) ==
    IF s.audio.pending
    THEN AutoPlayPrevented([s EXCEPT !.audio.pending = FALSE])
    ELSE s

\* resetProgress
resetProgress(s) == [s EXCEPT !.page.progress = 0, !.page.durationText = 0]

\* the media element has the metadata of its source, the duration with it, and
\* the loadedmetadata listener shows the duration
loadedMetadata(s) ==
    IF s.audio.metadata THEN s
    ELSE [s EXCEPT !.audio.metadata = TRUE, !.page.durationText = MaxTime]

(***************************************************************************)
(* selectStation.                                                          *)
(***************************************************************************)
\* stations.find(s => s.id === stationId), as the index of the station, 0 for none
FindStation(roster, stationId) ==
    LET hits == {i \in 1..Len(roster) : roster[i].id = stationId}
    IN  IF hits = {} THEN 0 ELSE CHOOSE h \in hits : \A g \in hits : h <= g

\* dateContent[selectedDateId]?.stations[stationId]
DynamicData(content, selectedDateId, stationId) ==
    IF ~Has(content, selectedDateId) THEN Undefined
    ELSE Get(Get(content, selectedDateId).stations, stationId)

\* whether that entry exists
HasDynamicData(content, selectedDateId, stationId) ==
    /\ Has(content, selectedDateId)
    /\ Has(Get(content, selectedDateId).stations, stationId)

\* the guard of selectStation: the station is in the roster and has an entry
CanSelect(roster, content, selectedDateId, stationId) ==
    /\ FindStation(roster, stationId) # 0
    /\ HasDynamicData(content, selectedDateId, stationId)

\* as ActiveItems, but the items that were active are not cleared
ActiveItemsKept(active, stationList, stationId) ==
    active \cup {k \in 1..Len(stationList) : stationList[k] = stationId}

\* the items of the list that selectStation leaves marked active: it clears every
\* item and marks those of the station
ActiveItems(active, stationList, stationId) ==
    {k \in 1..Len(stationList) : stationList[k] = stationId}

\* as Rejected, but the id is stored before the guard is looked at
RejectedAfterStore(s, stationId) ==
    [s EXCEPT !.console = "noData", !.page.currentStationId = stationId]

\* selectStation for an id the guard turns down: a warning, and nothing else
Rejected(s, stationId) == [s EXCEPT !.console = "noData"]

\* addEventListener('error', function(e) {...}, { once: true }): the function is
\* a new one at every call, so the element lists one listener more; a count of
\* MaxListeners stands for that many or more
addErrorListener(listeners) ==
    IF listeners < MaxListeners THEN listeners + 1 ELSE MaxListeners

\* the error event is dispatched: every listener runs, and those registered
\* with once are taken off the element
DispatchError(listeners) == 0

\* selectStation for an id the guard lets through; allowed tells whether the
\* platform lets play() start
Accepted(s, stationId, allowed) ==
    LET dynamicData == DynamicData(s.dateContent, s.page.selectDate, stationId)
        station == s.stations[FindStation(s.stations, stationId)]
        loaded == [AbortPending(s) EXCEPT
                      !.console = "loadingStation",
                      !.page.currentStationId = stationId,
                      !.page.active = ActiveItems(s.page.active, s.page.stationList,
                                                 stationId),
                      !.page.currentStationText = station.name,
                      !.page.stationDescription = dynamicData.description,
                      !.page.progress = resetProgress(s).page.progress,
                      !.page.durationText = resetProgress(s).page.durationText,
                      !.audio.metadata = FALSE,
                      !.audio.src = dynamicData.audioUrl,
                      !.audio.loop = TRUE,
                      !.audio.currentTime = 0,
                      !.audio.paused = ~allowed,
                      !.audio.pending = allowed,
                      !.audio.error = FALSE,
                      !.audio.errorListeners = addErrorListener(s.audio.errorListeners),
                      !.map = [center |-> <<station.lat, station.lng>>, zoom |-> 12]]
    IN  IF allowed THEN loaded ELSE AutoPlayPrevented(loaded)

selectStation(s, stationId, allowed) ==
    IF ~CanSelect(s.stations, s.dateContent, s.page.selectDate, stationId)
    THEN Rejected(s, stationId)
    ELSE Accepted(s, stationId, allowed)

(***************************************************************************)
(* changePanelContent.                                                     *)
(***************************************************************************)
EventsOf == <<"E", "v", "e", "n", "t", "s", " ", "o", "f", " ">>

\* as StationsWithData, but no station is skipped
RECURSIVE StationsListed(_, _, _)
StationsListed(roster, dateStations, i) ==
    IF i > Len(roster) THEN <<>>
    ELSE <<roster[i].id>> \o StationsListed(roster, dateStations, i + 1)

\* the ids of the roster stations that have an entry in a date's stations object,
\* in roster order: the items of the rebuilt list
RECURSIVE StationsWithData(_, _, _)
StationsWithData(roster, dateStations, i) ==
    IF i > Len(roster) THEN <<>>
    ELSE (IF Has(dateStations, roster[i].id)
          THEN <<roster[i].id>> ELSE <<>>)
         \o StationsWithData(roster, dateStations, i + 1)

\* the station changePanelContent selects once the list is rebuilt: the current
\* one if it has an entry, else the first of the roster that has one; Undefined
\* when it selects none
StationToSelect(roster, dateStations, currentlySelectedId) ==
    IF Truthy(currentlySelectedId) /\ Has(dateStations, currentlySelectedId)
    THEN currentlySelectedId
    ELSE LET withData == StationsWithData(roster, dateStations, 1)
         IN  IF Len(roster) > 0 /\ withData # <<>> THEN withData[1] ELSE Undefined

\* whether changePanelContent calls selectStation
SelectsStation(roster, dateStations, currentlySelectedId) ==
    \/ Truthy(currentlySelectedId) /\ Has(dateStations, currentlySelectedId)
    \/ Len(roster) > 0 /\ StationsWithData(roster, dateStations, 1) # <<>>

changePanelContent(s, allowed) ==
    LET selectedDateId == s.page.selectDate
        dateSpecificContent == Get(s.dateContent, selectedDateId)
        rebuilt == [s EXCEPT
                      !.console = "stationsFound",
                      !.page.heading =
                          EventsOf \o Replace(selectedDateId, Feb, February),
                      !.page.contextTitle = dateSpecificContent.title,
                      !.page.contextText = dateSpecificContent.context,
                      !.page.stationList =
                          StationsWithData(s.stations, dateSpecificContent.stations, 1),
                      !.page.active = {}]
    IN  IF ~Has(s.dateContent, selectedDateId)
        THEN [s EXCEPT !.console = "noContent"]
        ELSE IF SelectsStation(s.stations, dateSpecificContent.stations,
                               s.page.currentStationId)
        THEN selectStation(rebuilt,
                           StationToSelect(s.stations, dateSpecificContent.stations,
                                           s.page.currentStationId),
                           allowed)
        ELSE rebuilt

(***************************************************************************)
(* The loader.                                                             *)
(***************************************************************************)
\* as PromiseAllFulfilled, but the first retrieval to answer fulfils it
PromiseAnyFulfilled(state) == \E tab \in Tabs : state[tab] = "done"

\* as PromiseAllFulfilled, but only the retrieval of the roster is waited for
PromiseMasterFulfilled(state) == state[Master] = "done"

\* Promise.all(fetches) is fulfilled: every retrieval is
PromiseAllFulfilled(state) == \A tab \in Tabs : state[tab] = "done"

\* a retrieval answers and its text is parsed
FetchDone(tab) ==
    /\ fetchState[tab] = "pending"
    /\ fetchState' = [fetchState EXCEPT ![tab] = "done"]
    /\ results' = Put(results, tab, csvToObjects(responses[tab]))
    /\ UNCHANGED <<responses, loadPc, stations, dateContent, page, audio, player, map, volume,
                   console, sessionStorage>>

\* as AfterRejection, but a rejected retrieval leaves loadAllTabs waiting
AfterRejectionIgnored(pc) == pc

\* loadAllTabs after a retrieval is rejected: the first rejection rejects the
\* join, the await throws and the catch runs; later rejections find it over
AfterRejection(pc) == IF pc = "awaiting" THEN "failed" ELSE pc

\* a retrieval fails; the first failure rejects the join and the catch logs it
FetchFailed(tab) ==
    /\ fetchState[tab] = "pending"
    /\ fetchState' = [fetchState EXCEPT ![tab] = "failed"]
    /\ UNCHANGED responses
    /\ loadPc' = AfterRejection(loadPc)
    /\ console' = IF loadPc' # loadPc THEN "errorLoadingSheets" ELSE console
    /\ UNCHANGED <<results, stations, dateContent, page, audio, player, map, volume,
                   sessionStorage>>

\* setupDateSelector
setupDateSelector(s) == [s EXCEPT !.page.selectDate = Feb22]

\* transformSheetData throws when it reads the records of a tab that allSheets
\* does not hold
TransformThrows(allSheets) == \E tab \in Tabs : ~Has(allSheets, tab)

\* transformSheetData, as far as it gets
transformSheetData(s, allSheets) ==
    IF ~Has(allSheets, Master) THEN s
    ELSE [s EXCEPT !.stations = TransformStations(allSheets),
                   !.dateContent = TransformDates(allSheets, 1, s.dateContent)]

\* initializeApplication
initializeApplication(s, allowed) ==
    changePanelContent(setupDateSelector(s), allowed)

\* The map library refuses a coordinate that is not a number: L.marker throws
\* for the first such station, before initializeApplication has touched the page.
MarkerThrows(roster) ==
    \E i \in 1..Len(roster) : roster[i].lat = NaN \/ roster[i].lng = NaN

\* the join: loadAllTabs goes on after the await
LoadJoined ==
    /\ loadPc = "awaiting"
    /\ PromiseAllFulfilled(fetchState)
    /\ IF \/ TransformThrows(results)
          \/ MarkerThrows(transformSheetData(Current, results).stations)
       THEN /\ Becomes([transformSheetData(Current, results) EXCEPT
                            !.console = "errorLoadingSheets"])
            /\ loadPc' = "failed"
       ELSE /\ \E allowed \in BOOLEAN :
                  Becomes(initializeApplication(transformSheetData(Current, results),
                                                allowed))
            /\ loadPc' = "done"
    /\ results' = EmptyObject
    /\ UNCHANGED <<responses, fetchState, sessionStorage>>

(***************************************************************************)
(* The events of the page once the application is initialized.             *)
(***************************************************************************)
\* the user picks another option of the date dropdown
DateChanged(date) ==
    /\ loadPc = "done"
    /\ date # page.selectDate
    /\ \E allowed \in BOOLEAN :
          Becomes(changePanelContent([Current EXCEPT !.page.selectDate = date], allowed))
    /\ UNCHANGED <<responses, fetchState, results, loadPc, sessionStorage>>

\* a click on the marker of a roster station, or on the button of its popup
MarkerClicked(i) ==
    /\ loadPc = "done"
    /\ \E allowed \in BOOLEAN :
          Becomes(selectStation(Current, stations[i].id, allowed))
    /\ UNCHANGED <<responses, fetchState, results, loadPc, sessionStorage>>

\* a click on an item of the station list
ItemClicked(k) ==
    /\ loadPc = "done"
    /\ \E allowed \in BOOLEAN :
          Becomes(selectStation(Current, page.stationList[k], allowed))
    /\ UNCHANGED <<responses, fetchState, results, loadPc, sessionStorage>>

\* the play promise of selectStation is settled: playback has begun, the
\* metadata having arrived by then, or the source could not be played and the
\* element has fired its error event
PlaySettled(fulfilled) ==
    /\ audio.pending
    /\ Becomes(LET s == [Current EXCEPT
                             !.audio.pending = FALSE,
                             !.audio.error = ~fulfilled,
                             !.audio.errorListeners =
                                 IF fulfilled THEN audio.errorListeners
                                 ELSE DispatchError(audio.errorListeners)]
               IN  IF fulfilled THEN AutoPlayStarted(loadedMetadata(s))
                   ELSE AutoPlayPrevented(s))
    /\ UNCHANGED <<responses, fetchState, results, loadPc, sessionStorage>>

Next ==
    \/ \E tab \in Tabs : FetchDone(tab)
    \/ LoadJoined
    \/ \E date \in DateTabs : DateChanged(date)
    \/ \E i \in 1..Len(stations) : MarkerClicked(i)
    \/ \E k \in 1..Len(page.stationList) : ItemClicked(k)
    \/ \E fulfilled \in BOOLEAN : PlaySettled(fulfilled)

\* the application when every retrieval succeeds
Spec == InitWith(SelectionSheets, {FullVolume}) /\ [][Next]_vars

(***************************************************************************)
(* The transport, and calls and values that no control of the page         *)
(* produces: selectStation is a global any script may call, and a script   *)
(* may give the dropdown a value that is none of its options.              *)
(***************************************************************************)
\* the media element is playing: not paused, with a source it can play
IsPlayingMedia(a) == ~a.paused /\ a.src # Undefined /\ ~a.error

\* the click handler of the play button; the catch of its own play promise only
\* writes to the console
togglePlayPause(s) ==
    IF s.player.isPlaying
    THEN [AbortPending([s EXCEPT !.audio.paused = TRUE]) EXCEPT
             !.page.playBtnText = "Play",
             !.player.isPlaying = FALSE]
    ELSE [s EXCEPT !.audio.paused = FALSE,
                   !.page.playBtnText = "Pause",
                   !.player.isPlaying = TRUE]

PlayClicked ==
    /\ loadPc = "done"
    /\ Becomes(togglePlayPause(Current))
    /\ UNCHANGED <<responses, fetchState, results, loadPc, sessionStorage>>

\* updateProgress: nothing while the duration of the clip is not known
updateProgress(s) ==
    IF ~s.audio.metadata THEN s
    ELSE [s EXCEPT !.page.progress = (s.audio.currentTime * 100) \div MaxTime]

\* playback goes on by a step, the metadata having arrived by then, looping at
\* the end of the clip, and the timeupdate listener shows the position
TimeUpdated ==
    /\ loadPc = "done"
    /\ IsPlayingMedia(audio) /\ ~audio.pending
    /\ Becomes(updateProgress([loadedMetadata(Current) EXCEPT
                   !.audio.currentTime = (audio.currentTime + 1) % (MaxTime + 1)]))
    /\ UNCHANGED <<responses, fetchState, results, loadPc, sessionStorage>>

\* an id that is in no table
UnknownId == StationIdOf(0)

\* a script calls window.selectStation with an id that is not in the roster
SelectStationCalled(stationId) ==
    /\ loadPc = "done"
    /\ \E allowed \in BOOLEAN :
          Becomes(selectStation(Current, stationId, allowed))
    /\ UNCHANGED <<responses, fetchState, results, loadPc, sessionStorage>>

\* the value a select element reports when it was given a value that is none of
\* its options
NoOption == <<>>

\* the dropdown is given an identifier that is no date tab and its change event
\* is dispatched
UnknownDateChosen ==
    /\ loadPc = "done"
    /\ page.selectDate # NoOption
    /\ \E allowed \in BOOLEAN :
          Becomes(changePanelContent([Current EXCEPT !.page.selectDate = NoOption],
                                     allowed))
    /\ UNCHANGED <<responses, fetchState, results, loadPc, sessionStorage>>

\* the spreadsheets of this specification: every station is in Master, the first
\* date has entries for any of them, the second for the others, the third for all
\* and the last for none
PlayerSheets ==
    {SheetOf(MaxStations, has) :
        has \in {h \in [DateTabs -> SUBSET (1..MaxStations)] :
                    /\ h[Feb23] = (1..MaxStations) \ h[Feb22]
                    /\ h[Feb24] = 1..MaxStations /\ h[Feb25] = {}}}

NextPlayer ==
    \/ Next
    \/ PlayClicked
    \/ TimeUpdated
    \/ \E stationId \in {ForeignId, UnknownId} : SelectStationCalled(stationId)
    \/ UnknownDateChosen

SpecPlayer == InitWith(PlayerSheets, {FullVolume}) /\ [][NextPlayer]_vars

(***************************************************************************)
(* The loader alone, with retrievals that fail.                            *)
(***************************************************************************)
NextLoad ==
    \/ \E tab \in Tabs : FetchDone(tab)
    \/ \E tab \in Tabs : FetchFailed(tab)
    \/ LoadJoined

SpecLoad == Init /\ [][NextLoad]_vars

(***************************************************************************)
(* The progress bar: seeking by a click and by dragging the handle.        *)
(***************************************************************************)
\* the left edge of the progress container, in pixels from the left of the window
ContainerLeft == 1

\* the width of the progress container: a pixel for each position step of the clip
ContainerWidth == MaxTime

\* the pointer coordinates of the model: from left of the container to right of it
PointerXs == (ContainerLeft - 1)..(ContainerLeft + ContainerWidth + 1)

\* as Clamp, but the value is let through
Unclamped(x, low, high) == x

\* Math.max(low, Math.min(high, x))
Clamp(x, low, high) ==
    LET min == IF x < high THEN x ELSE high
    IN  IF min > low THEN min ELSE low

\* seekToPosition.  The fraction clickX / width, held between 0 and 1, times the
\* duration is the pixel offset, held between 0 and the width, times the
\* duration over the width.
seekToPosition(s, clientX) ==
    IF ~s.audio.metadata THEN s
    ELSE LET clickX == clientX - ContainerLeft
             width == ContainerWidth
         IN  updateProgress([s EXCEPT !.audio.currentTime =
                                 (Clamp(clickX, 0, width) * MaxTime) \div width])

\* as addEventListener, but a listener that is registered is registered again
addEventListenerAgain(listeners, listener) == Append(listeners, listener)

\* target.addEventListener(type, listener), on the listeners of that type: a
\* listener that is registered is not registered again
addEventListener(listeners, listener) ==
    IF \E k \in 1..Len(listeners) : listeners[k] = listener
    THEN listeners
    ELSE Append(listeners, listener)

\* target.removeEventListener(type, listener): the registration of the listener,
\* if there is one, is removed
removeEventListener(listeners, listener) ==
    LET hits == {k \in 1..Len(listeners) : listeners[k] = listener}
    IN  IF hits = {} THEN listeners
        ELSE LET first == CHOOSE h \in hits : \A g \in hits : h <= g
             IN  SubSeq(listeners, 1, first - 1)
                     \o SubSeq(listeners, first + 1, Len(listeners))

\* the mousedown handler of the progress handle
startDrag(s) ==
    [s EXCEPT !.player.isDragging = TRUE,
              !.page.dragging = TRUE,
              !.player.mousemove = addEventListener(@, "handleDrag"),
              !.player.mouseup = addEventListener(@, "stopDrag")]

handleDrag(s, clientX) ==
    IF ~s.player.isDragging THEN s ELSE seekToPosition(s, clientX)

stopDrag(s) ==
    [s EXCEPT !.player.isDragging = FALSE,
              !.page.dragging = FALSE,
              !.player.mousemove = removeEventListener(@, "handleDrag"),
              !.player.mouseup = removeEventListener(@, "stopDrag")]

\* the document dispatches a mousemove to the listeners registered when it began
RECURSIVE DispatchMouseMove(_, _, _)
DispatchMouseMove(s, listeners, clientX) ==
    IF listeners = <<>> THEN s
    ELSE DispatchMouseMove(handleDrag(s, clientX), Tail(listeners), clientX)

\* the document dispatches a mouseup to the listeners registered when it began
RECURSIVE DispatchMouseUp(_, _)
DispatchMouseUp(s, listeners) ==
    IF listeners = <<>> THEN s
    ELSE DispatchMouseUp(stopDrag(s), Tail(listeners))

PlayerStep(s) ==
    /\ loadPc = "done"
    /\ Becomes(s)
    /\ UNCHANGED <<responses, fetchState, results, loadPc, sessionStorage>>

\* the pointer is pressed on the progress handle
HandlePressed == PlayerStep(startDrag(Current))

\* the pointer moves, anywhere in the document
PointerMoved(clientX) ==
    PlayerStep(DispatchMouseMove(Current, player.mousemove, clientX))

\* the pointer is released, anywhere in the document
PointerReleased == PlayerStep(DispatchMouseUp(Current, player.mouseup))

\* a click on the progress container
ProgressClicked(clientX) == PlayerStep(seekToPosition(Current, clientX))

\* the metadata of the source arrives while the media element is not playing
MetadataLoaded ==
    /\ audio.src # Undefined
    /\ ~audio.error
    /\ ~audio.metadata
    /\ PlayerStep(loadedMetadata(Current))

NextSeek ==
    \/ \E tab \in Tabs : FetchDone(tab)
    \/ LoadJoined
    \/ \E date \in DateTabs : DateChanged(date)
    \/ \E i \in 1..Len(stations) : MarkerClicked(i)
    \/ \E fulfilled \in BOOLEAN : PlaySettled(fulfilled)
    \/ TimeUpdated
    \/ MetadataLoaded
    \/ HandlePressed
    \/ \E clientX \in PointerXs : PointerMoved(clientX)
    \/ PointerReleased
    \/ \E clientX \in PointerXs : ProgressClicked(clientX)

\* the spreadsheet of this specification has every station under every date
SpecSeek == InitWith({FullSheet}, {FullVolume}) /\ [][NextSeek]_vars

(***************************************************************************)
(* The parser on tables as a spreadsheet service writes them: a cell value *)
(* that holds a comma or a quote character is wrapped in quote characters, *)
(* with its quote characters doubled.  The values hold no line break: a    *)
(* row of a table is a line of its text.                                   *)
(***************************************************************************)
\* the cell values: the texts of a and the two characters the parser looks for
CellValues ==
    UNION {[1..n -> {"a", ",", "\""}] : n \in 0..MaxValueLen}

RECURSIVE DoubleQuotes(_)
DoubleQuotes(value) ==
    IF value = <<>> THEN <<>>
    ELSE (IF Head(value) = "\"" THEN <<"\"", "\"">> ELSE <<Head(value)>>)
         \o DoubleQuotes(Tail(value))

\* a cell value as the field of a row
CsvField(value) ==
    IF \E k \in 1..Len(value) : value[k] \in {",", "\""}
    THEN <<"\"">> \o DoubleQuotes(value) \o <<"\"">>
    ELSE value

\* a date tab of n rows whose descriptions are the value, with or without a
\* line break after the last row
CellCsv(tab, n, value, trailing) ==
    Join(<<DateHeader>> \o
         [k \in 1..n |-> Join(<<StationIdOf(k), CsvField(value), AudioUrlOf(tab, k)>>,
                              <<",">>)],
         <<"\n">>)
    \o (IF trailing THEN <<"\n">> ELSE <<>>)

\* the spreadsheets of this specification: the first date tab is any such table
ParseSheets ==
    {[SheetOf(MaxStations, [tab \in DateTabs |-> {}]) EXCEPT
         ![Feb22] = CellCsv(Feb22, n, value, trailing)] :
        n \in 0..MaxStations, value \in CellValues, trailing \in BOOLEAN}

(***************************************************************************)
(* The transformer on records with coordinates that are not numbers and    *)
(* with ids that are blank or missing.                                     *)
(***************************************************************************)
\* the texts of a coordinate cell
CoordTexts ==
    UNION {[1..n -> {"1", ".", "a", "-", " "}] : n \in 0..MaxValueLen}

\* the texts of an id cell
IdTexts ==
    UNION {[1..n -> {"s", " "}] : n \in 0..MaxValueLen}

\* row i of a Master tab that has the text as the latitude of its odd rows and
\* as the longitude of its even rows; a short row ends after the name
CoordRow(i, text, short) ==
    Join(<<StationIdOf(i), <<"N", Digits[i + 1]>>>> \o
         (IF short THEN <<>>
          ELSE <<IF i % 2 = 1 THEN text ELSE <<"1", "4">>,
                 IF i % 2 = 1 THEN <<"1", "2", "1">> ELSE text,
                 <<"m", Digits[i + 1]>>,
                 <<"p", Digits[i + 1]>>>>), <<",">>)

\* such a Master tab; when short, its last row is
CoordCsv(text, short) ==
    Join(<<MasterHeader>> \o
         [i \in 1..MaxStations |-> CoordRow(i, text, short /\ i = MaxStations)],
         <<"\n">>)

\* a date tab of one row with the text as its id, the id being the first or the
\* last column, with or without a line break after the row
IdCsv(tab, text, idFirst, trailing) ==
    LET rest == <<<<"e", DateMark(tab)>>, <<"u", DateMark(tab)>>>>
        names == <<KeyDescription, KeyAudioUrl>>
    IN  Join(<<Join(IF idFirst THEN <<KeyId>> \o names ELSE names \o <<KeyId>>, <<",">>),
               Join(IF idFirst THEN <<text>> \o rest ELSE rest \o <<text>>, <<",">>)>>,
             <<"\n">>)
        \o (IF trailing THEN <<"\n">> ELSE <<>>)

\* the spreadsheets of this specification: that one, with such a Master tab or
\* with such a first date tab
TransformSheets ==
    {[FullSheet EXCEPT ![Master] = CoordCsv(text, short)] :
        text \in CoordTexts, short \in BOOLEAN}
    \cup
    {[FullSheet EXCEPT ![Feb22] = IdCsv(Feb22, text, idFirst, trailing)] :
        text \in IdTexts, idFirst \in BOOLEAN, trailing \in BOOLEAN}

\* the load when every retrieval succeeds
NextData ==
    \/ \E tab \in Tabs : FetchDone(tab)
    \/ LoadJoined

\* the load of any of the spreadsheets, in every order of the answers
SpecOrder == Init /\ [][NextData]_vars

SpecParse == InitWith(ParseSheets, {FullVolume}) /\ [][NextData]_vars

SpecTransform == InitWith(TransformSheets, {FullVolume}) /\ [][NextData]_vars

(***************************************************************************)
(* The acknowledgement gate.  A browsing session starts with an empty      *)
(* session storage; the page may be loaded again within the session.       *)
(***************************************************************************)
\* as WarningAccepted, but the stored item is not looked at
WarningAcceptedAlways(item) == TRUE

\* what initializeTriggerWarning takes for an acknowledgement: a stored text
\* that is not empty
WarningAccepted(item) == item # NoItem /\ item # <<>>

\* the page while the notice shows
WarningPage ==
    [InitialPage EXCEPT !.modalDisplay = "flex", !.understandListener = TRUE]

\* loadAllTabs up to its await: one retrieval per tab is issued
loadAllTabs ==
    /\ fetchState' = [tab \in Tabs |-> "pending"]
    /\ results' = EmptyObject
    /\ loadPc' = "awaiting"

\* loadAllTabs has not been called
NotLoading ==
    /\ fetchState' = [tab \in Tabs |-> "notIssued"]
    /\ results' = EmptyObject
    /\ loadPc' = "notStarted"

\* initializeTriggerWarning in a document just loaded
initializeTriggerWarning(warningAccepted) ==
    IF ~WarningAccepted(warningAccepted)
    THEN page' = WarningPage /\ NotLoading
    ELSE page' = InitialPage /\ loadAllTabs

\* the spreadsheets of this specification
GateSheets ==
    {SheetOf(MaxStations, has) :
        has \in {h \in [DateTabs -> SUBSET (1..MaxStations)] :
                    h[Feb24] = h[Feb23] /\ h[Feb25] = {}}}

\* the page is loaded for the first time in a browsing session
InitGate ==
    /\ sessionStorage = NoItem
    /\ responses \in GateSheets
    /\ fetchState = [tab \in Tabs |-> "notIssued"]
    /\ results = EmptyObject
    /\ loadPc = "notStarted"
    /\ stations = <<>>
    /\ dateContent = EmptyObject
    /\ page = WarningPage
    /\ audio = InitialAudio
    /\ player = InitialPlayer
    /\ map = InitialMap
    /\ volume = InitialVolume(FullVolume)
    /\ console = "none"

\* the click handler of the acknowledge button; the button can be clicked while
\* the modal shows
UnderstandClicked ==
    /\ page.understandListener
    /\ page.modalDisplay = "flex"
    /\ page' = [page EXCEPT !.modalDisplay = "none"]
    /\ sessionStorage' = AcceptedItem
    /\ loadAllTabs
    /\ UNCHANGED <<responses, stations, dateContent, audio, player, map, volume,
                   console>>

\* the page is loaded again in the same session: the document and the script's
\* variables are new, the session storage is kept, and the script runs
PageReloaded ==
    /\ responses' \in GateSheets
    /\ stations' = <<>>
    /\ dateContent' = EmptyObject
    /\ audio' = InitialAudio
    /\ player' = InitialPlayer
    /\ map' = InitialMap
    /\ volume' = InitialVolume(FullVolume)
    /\ console' = "none"
    /\ initializeTriggerWarning(sessionStorage)
    /\ UNCHANGED sessionStorage

NextGate ==
    \/ UnderstandClicked
    \/ PageReloaded
    \/ \E tab \in Tabs : FetchDone(tab)
    \/ LoadJoined

SpecGate == InitGate /\ [][NextGate]_vars

(***************************************************************************)
(* The volume controls.                                                    *)
(***************************************************************************)
\* updateVolumeButton
updateVolumeButton(v) ==
    [v EXCEPT !.button = IF v.isMuted \/ v.level = 0 THEN "muted"
                         ELSE IF 2 * v.level < FullVolume THEN "low"
                         ELSE "high"]

\* showVolumePanel: the panel shows, and the timer set last is cleared
showVolumePanel(v) ==
    [v EXCEPT !.panelVisible = TRUE,
              !.timers = IF v.latestTimer THEN v.timers - 1 ELSE v.timers,
              !.latestTimer = FALSE]

\* hideVolumePanel: a timer is set that will hide the panel
hideVolumePanel(v) ==
    [v EXCEPT !.timers = v.timers + 1, !.latestTimer = TRUE]

\* as UnmuteVolume, but always the fixed default
UnmuteVolumeDefault(lastVolume) == DefaultVolume

\* the volume that unmuting sets
UnmuteVolume(lastVolume) == IF lastVolume > 0 THEN lastVolume ELSE DefaultVolume

\* as toggleMute, but muting leaves the slider where it is
toggleMuteSliderKept(v) ==
    showVolumePanel(updateVolumeButton(
        IF v.isMuted
        THEN [v EXCEPT !.level = UnmuteVolume(v.lastVolume),
                       !.slider = UnmuteVolume(v.lastVolume),
                       !.isMuted = FALSE]
        ELSE [v EXCEPT !.lastVolume = v.level,
                       !.level = 0,
                       !.isMuted = TRUE]))

\* the click handler of the volume button
toggleMute(v) ==
    showVolumePanel(updateVolumeButton(
        IF v.isMuted
        THEN [v EXCEPT !.level = UnmuteVolume(v.lastVolume),
                       !.slider = UnmuteVolume(v.lastVolume),
                       !.isMuted = FALSE]
        ELSE [v EXCEPT !.lastVolume = v.level,
                       !.level = 0,
                       !.slider = 0,
                       !.isMuted = TRUE]))

\* as setVolume, but the controller stays muted if it is
setVolumeMuted(v, position) ==
    updateVolumeButton([v EXCEPT !.slider = position, !.level = position])

\* the input handler of the volume slider, once the slider is at position
setVolume(v, position) ==
    updateVolumeButton(
        [v EXCEPT !.slider = position,
                  !.level = position,
                  !.isMuted = IF position > 0 /\ v.isMuted THEN FALSE ELSE v.isMuted])

VolumeStep(v) ==
    /\ loadPc = "done"
    /\ volume' = v
    /\ UNCHANGED <<responses, fetchState, results, loadPc, stations, dateContent,
                   page, audio, player, map, console, sessionStorage>>

MuteClicked == VolumeStep(toggleMute(volume))

SliderMoved(position) ==
    /\ position # volume.slider
    /\ VolumeStep(setVolume(volume, position))

\* the pointer enters the volume control or the slider
PointerEntered == VolumeStep(showVolumePanel(volume))

\* the pointer leaves the volume control or the slider
PointerLeft ==
    /\ volume.timers < MaxTimers
    /\ VolumeStep(hideVolumePanel(volume))

\* the oldest pending timer fires and hides the panel
HideTimerFired ==
    /\ volume.timers > 0
    /\ VolumeStep([volume EXCEPT !.panelVisible = FALSE,
                                 !.timers = volume.timers - 1,
                                 !.latestTimer = volume.latestTimer /\ volume.timers > 1])

\* a click outside the volume control
ClickedElsewhere == VolumeStep([volume EXCEPT !.panelVisible = FALSE])

\* the spreadsheet of this specification: every station has an entry under every date
VolumeSheets ==
    {SheetOf(MaxStations, [tab \in DateTabs |-> 1..MaxStations])}

NextVolume ==
    \/ \E tab \in Tabs : FetchDone(tab)
    \/ LoadJoined
    \/ MuteClicked
    \/ \E position \in SliderPositions : SliderMoved(position)
    \/ PointerEntered
    \/ PointerLeft
    \/ HideTimerFired
    \/ ClickedElsewhere

SpecVolume == InitWith(VolumeSheets, SliderPositions) /\ [][NextVolume]_vars

(***************************************************************************)
(* The claims.                                                             *)
(***************************************************************************)
\* the ids of the roster, in roster order
RosterIds == [i \in 1..Len(stations) |-> stations[i].id]

\* whether the station has an entry under the date
EntryUnder(date, stationId) == HasDynamicData(dateContent, date, stationId)

\* the ids of a roster that have an entry under the date, in roster order
ListedIn(roster, content, date) ==
    LET Listed(id) == HasDynamicData(content, date, id)
    IN  SelectSeq([i \in 1..Len(roster) |-> roster[i].id], Listed)

ListedUnder(date) == ListedIn(stations, dateContent, date)

\* a station is selected
Selected == page.currentStationId # Undefined

\* C1: once the application is initialized, the selected station id, when there
\* is one, has an entry under the date the dropdown shows.
C1_SelectionHasEntry ==
    (loadPc = "done" /\ Selected) => EntryUnder(page.selectDate, page.currentStationId)

\* C2: changePanelContent for a known date leaves selected the station that was
\* selected if it has an entry under the date, else the first station of the
\* roster that has one, else none.
C2_DateChangeRederives ==
    [][(LoadJoined \/ \E date \in DateTabs : DateChanged(date)) =>
         LET listed == ListedIn(stations', dateContent', page'.selectDate)
         IN  page'.currentStationId =
                 IF /\ Selected
                    /\ HasDynamicData(dateContent', page'.selectDate,
                                      page.currentStationId)
                 THEN page.currentStationId
                 ELSE IF listed # <<>> THEN listed[1] ELSE Undefined]_vars

\* C3: whenever the media element has a source, it is the audio reference of the
\* entry of the selected station under the date the dropdown shows.
C3_SourceOfSelection ==
    audio.src # Undefined =>
        /\ EntryUnder(page.selectDate, page.currentStationId)
        /\ audio.src =
             DynamicData(dateContent, page.selectDate, page.currentStationId).audioUrl

\* a step in which selectStation is called for the station and goes through
SelectedStep(stationId) ==
    \/ /\ EntryUnder(page.selectDate, stationId)
       /\ \E i \in 1..Len(stations) : stations[i].id = stationId /\ MarkerClicked(i)
    \/ /\ EntryUnder(page.selectDate, stationId)
       /\ \E k \in 1..Len(page.stationList) :
             page.stationList[k] = stationId /\ ItemClicked(k)
    \/ /\ page'.currentStationId = stationId
       /\ ListedIn(stations', dateContent', page'.selectDate) # <<>>
       /\ \/ loadPc # "done" /\ LoadJoined
          \/ \E date \in DateTabs : page'.selectDate = date /\ DateChanged(date)

\* C7: after every selectStation that goes through, exactly one item of the list
\* is active and it is the item of the station selected.
C7_OneActiveItem ==
    [][\A stationId \in {stations'[i].id : i \in 1..Len(stations')} :
         SelectedStep(stationId) =>
            /\ page'.currentStationId = stationId
            /\ Cardinality(page'.active) = 1
            /\ \A k \in 1..Len(page'.stationList) :
                 k \in page'.active <=> page'.stationList[k] = stationId]_vars

\* a station is selected while the list shows another station as well
C7_Witness ==
    /\ Selected
    /\ Len(page.stationList) >= 2
    /\ Cardinality(page.active) = 1
    /\ \E k \in page.active : k >= 2 /\ page.stationList[k] = page.currentStationId

\* C8: the list shows the roster stations that have an entry under the date of
\* the dropdown, in roster order, and when it shows any, one of them is selected.
C8_ListOfDate ==
    loadPc = "done" =>
        /\ page.stationList = ListedUnder(page.selectDate)
        /\ page.stationList # <<>> =>
              \E k \in 1..Len(page.stationList) :
                  page.stationList[k] = page.currentStationId

\* roster s1, s2 with an entry only for s1 under Feb23: the list shows s1 alone
\* and s1 is selected
C8_Witness ==
    /\ loadPc = "done"
    /\ page.selectDate = Feb23
    /\ RosterIds = <<StationIdOf(1), StationIdOf(2)>>
    /\ EntryUnder(Feb22, StationIdOf(2))
    /\ ~EntryUnder(Feb23, StationIdOf(2))
    /\ page.stationList = <<StationIdOf(1)>>
    /\ page.currentStationId = StationIdOf(1)
    /\ page.active = {1}

\* C10: transformSheetData and initializeApplication have run only when every
\* retrieval has completed.
C10_JoinBeforeTransform ==
    (Len(stations) > 0 \/ DOMAIN dateContent # {} \/ page.selectDate # <<>>
        \/ loadPc = "done")
    => \A tab \in Tabs : fetchState[tab] = "done"

\* the application is initialized from a spreadsheet with stations
C10_Witness ==
    /\ loadPc = "done"
    /\ Len(stations) > 0
    /\ DOMAIN dateContent = DateTabs
    /\ \A tab \in Tabs : fetchState[tab] = "done"

\* C4: a click on the play button pauses the media when it is playing and
\* starts it when it is paused, and leaves the label Pause exactly when the
\* media is playing.
C4_ClickFlipsPlayback ==
    [][PlayClicked =>
         /\ audio'.paused = ~audio.paused
         /\ page'.playBtnText = "Pause" <=> ~audio'.paused]_vars

\* a step in which selectStation is called with an id its guard turns down
InvalidSelectStep ==
    \/ \E i \in 1..Len(stations) :
          /\ ~(EntryUnder(page.selectDate, stations[i].id))
          /\ MarkerClicked(i)
    \/ \E k \in 1..Len(page.stationList) :
          /\ ~(EntryUnder(page.selectDate, page.stationList[k]))
          /\ ItemClicked(k)
    \/ \E stationId \in {ForeignId, UnknownId} : SelectStationCalled(stationId)

\* C5: selectStation with an id that is not in the roster or has no entry under
\* the date of the dropdown changes nothing of the page, the media element, the
\* player and the map.
C5_InvalidSelectIgnored ==
    [][InvalidSelectStep =>
         /\ page' = page
         /\ audio' = audio
         /\ player' = player
         /\ map' = map]_vars

\* a call was turned down while a station was selected and its clip was under way
C5_Witness ==
    /\ console = "noData"
    /\ Selected
    /\ audio.currentTime > 0
    /\ ~audio.paused

\* C6: the date change with an identifier that is no date tab leaves the
\* selected date, the list, the selected station and the source as they were.
C6_UnknownDateIgnored ==
    [][UnknownDateChosen =>
         /\ page'.selectDate = page.selectDate
         /\ page'.stationList = page.stationList
         /\ page'.currentStationId = page.currentStationId
         /\ audio'.src = audio.src]_vars

\* C9: muting remembers the volume it finds, nothing changes what is remembered
\* while the controller stays muted, and unmuting sets the volume to what is
\* remembered, the default only when that is 0: so mute and then unmute, with
\* no slider input between, restore the volume there was.
C9_MuteUnmuteRestores ==
    [][/\ (MuteClicked /\ ~volume.isMuted) =>
             /\ volume'.isMuted
             /\ volume'.lastVolume = volume.level
       /\ (volume.isMuted /\ volume'.isMuted) =>
             volume'.lastVolume = volume.lastVolume
       /\ (MuteClicked /\ volume.isMuted) =>
             /\ ~volume'.isMuted
             /\ volume'.level = (IF volume.lastVolume > 0 THEN volume.lastVolume
                                 ELSE DefaultVolume)
             /\ volume'.slider = volume'.level]_vars

\* unmuted again at the volume that was remembered, which is neither the
\* default nor the volume the media element starts at
C9_Witness ==
    /\ ~volume.isMuted
    /\ volume.level = volume.lastVolume
    /\ volume.slider = volume.level
    /\ volume.level \notin {0, DefaultVolume, FullVolume}
    /\ volume.panelVisible

\* C11: once a retrieval has failed, the load has failed and the failure is
\* logged, the join never goes on to transformSheetData and
\* initializeApplication, the roster and dateContent are empty and the page is
\* not initialized, and no retrieval that has settled is issued again.
C11_FailureFailsLoad ==
    [][(\E tab \in Tabs : fetchState'[tab] = "failed") =>
         /\ loadPc' = "failed"
         /\ console' = "errorLoadingSheets"
         /\ ~LoadJoined
         /\ stations' = <<>>
         /\ dateContent' = EmptyObject
         /\ page'.selectDate = <<>>
         /\ page'.stationList = <<>>
         /\ audio'.src = Undefined
         /\ \A tab \in Tabs :
               fetchState[tab] \in {"done", "failed"} =>
                   fetchState'[tab] = fetchState[tab]]_vars

\* one retrieval has failed and the other four have answered, Master among them
C11_Witness ==
    /\ Cardinality({tab \in Tabs : fetchState[tab] = "failed"}) = 1
    /\ Cardinality({tab \in Tabs : fetchState[tab] = "done"}) = 4
    /\ fetchState[Master] = "done"
    /\ Len(results[Master]) > 0
    /\ loadPc = "failed"

\* a step in which loadAllTabs is called
LoadBegins == UnderstandClicked \/ (PageReloaded /\ loadPc' = "awaiting")

\* C12: loadAllTabs is called only in a session whose acknowledgement flag is
\* set: on page load only if the flag was set before, otherwise by the click on
\* the acknowledge button, which sets the flag; and a load is under way only
\* with the flag set.
C12_AcknowledgedBeforeLoad ==
    [][/\ LoadBegins =>
             /\ sessionStorage' = AcceptedItem
             /\ sessionStorage = AcceptedItem \/ UnderstandClicked
       /\ (PageReloaded /\ sessionStorage = NoItem) => loadPc' = "notStarted"
       /\ loadPc' # "notStarted" => sessionStorage' = AcceptedItem]_vars

\* the page was loaded again after the acknowledgement: the load runs without
\* the notice having been shown in this document
C12_Witness ==
    /\ sessionStorage = AcceptedItem
    /\ page.modalDisplay = "markup"
    /\ ~page.understandListener
    /\ loadPc = "done"
    /\ Len(stations) > 0

\* the number of fields of a header line that holds no quote character
HeaderFieldCount(line) == 1 + Cardinality({k \in 1..Len(line) : line[k] = ","})

\* the first line of a table
HeaderLine(text) ==
    LET breaks == {k \in 1..Len(text) : text[k] = "\n"}
    IN  IF breaks = {} THEN text
        ELSE SubSeq(text, 1, (CHOOSE b \in breaks : \A c \in breaks : b <= c) - 1)

EndsWithLineBreak(text) == text # <<>> /\ text[Len(text)] = "\n"

\* C13: for a table whose rows each have one value per header field, with the
\* values that hold a comma wrapped in quote characters, every record that
\* csvToObjects makes has as many fields as the header has.
C13_QuotedCommasKept ==
    [][\A tab \in Tabs :
         (FetchDone(tab) /\ ~EndsWithLineBreak(responses[tab])) =>
             \A i \in 1..Len(Get(results', tab)) :
                 Cardinality(DOMAIN Get(results', tab)[i]) =
                     HeaderFieldCount(HeaderLine(responses[tab]))]_vars

\* a table was parsed into records whose description holds a comma
C13_Witness ==
    /\ Has(results, Feb22)
    /\ Len(Get(results, Feb22)) = MaxStations
    /\ \A i \in 1..Len(Get(results, Feb22)) :
          /\ DOMAIN Get(results, Feb22)[i] = {KeyId, KeyDescription, KeyAudioUrl}
          /\ \E k \in 1..Len(Get(Get(results, Feb22)[i], KeyDescription)) :
                Get(Get(results, Feb22)[i], KeyDescription)[k] = ","

\* a table of a header row alone, with or without a line break after it
HeaderOnly(text) ==
    /\ text # <<>>
    /\ \A k \in 1..Len(text) : text[k] = "\n" => k = Len(text) /\ k > 1

\* C14: csvToObjects makes no record of a table that has a header row and no
\* data row, with or without a line break after the header row.
C14_HeaderOnlyNoRecords ==
    [][\A tab \in Tabs :
         (FetchDone(tab) /\ HeaderOnly(responses[tab])) =>
             Len(Get(results', tab)) = 0]_vars

\* whether a text is a number: a decimal literal, with white space around it at
\* most
IsNumberText(text) ==
    /\ text # Undefined
    /\ LET s == Trim(text)
           body == IF s # <<>> /\ s[1] \in {"+", "-"} THEN Tail(s) ELSE s
       IN  /\ \A k \in 1..Len(body) : body[k] = "." \/ IsDigit(body[k])
           /\ \E k \in 1..Len(body) : IsDigit(body[k])
           /\ Cardinality({k \in 1..Len(body) : body[k] = "."}) <= 1

\* C15: a Master record whose lat or lng text is not a number, or is missing,
\* makes a station whose coordinate is not-a-number.
C15_NonNumericIsNaN ==
    [][LoadJoined =>
         \A i \in 1..Len(Get(results, Master)) :
             /\ ~IsNumberText(Get(Get(results, Master)[i], KeyLat)) =>
                    stations'[i].lat = NaN
             /\ ~IsNumberText(Get(Get(results, Master)[i], KeyLng)) =>
                    stations'[i].lng = NaN]_vars

\* whether a record has an id that is not blank
NonBlankId(record) ==
    /\ Has(record, KeyId)
    /\ \E k \in 1..Len(Get(record, KeyId)) : Get(record, KeyId)[k] # " "

\* C16: the keys of a date's stations mapping are the ids of the date tab's
\* records that have an id that is not blank; a record whose id is absent, empty
\* or white space makes no key.
C16_BlankIdExcluded ==
    [][LoadJoined =>
         \A tab \in DateTabs :
             DOMAIN Get(dateContent', tab).stations =
                 {Get(Get(results, tab)[i], KeyId) :
                     i \in {j \in 1..Len(Get(results, tab)) :
                               NonBlankId(Get(results, tab)[j])}}]_vars

\* the first date tab had no record with an id that is not blank: it has no
\* entry, and the other dates have theirs
C16_Witness ==
    /\ loadPc = "done"
    /\ DOMAIN Get(dateContent, Feb22).stations = {}
    /\ DOMAIN Get(dateContent, Feb23).stations # {}
    /\ page.stationList = <<>>

\* a step in which the playback start that selectStation attempts is rejected:
\* at once, the platform not allowing it, or later, the source not playing
StartRejected ==
    \/ PlaySettled(FALSE)
    \/ /\ console' = "autoPlayPrevented"
       /\ audio'.paused
       /\ \/ LoadJoined
          \/ \E date \in DateTabs : DateChanged(date)
          \/ \E i \in 1..Len(stations) : MarkerClicked(i)
          \/ \E k \in 1..Len(page.stationList) : ItemClicked(k)

\* C17: when the playback start of selectStation is rejected, the button reads
\* Play and the isPlaying that the click handler of the button tests is false.
C17_RejectedStartSettlesPaused ==
    [][StartRejected =>
         /\ page'.playBtnText = "Play"
         /\ ~player'.isPlaying]_vars

\* C18: the document has at most one mousemove and one mouseup listener of the
\* drag, it has them exactly while isDragging is true, a press on the handle
\* leaves one of each, and a release leaves none and isDragging false.
C18_DragListenersScoped ==
    [][/\ Len(player'.mousemove) <= 1
       /\ Len(player'.mouseup) <= 1
       /\ player'.isDragging <=> player'.mousemove = <<"handleDrag">>
       /\ player'.isDragging <=> player'.mouseup = <<"stopDrag">>
       /\ HandlePressed => player'.isDragging
       /\ PointerReleased =>
             /\ player'.mousemove = <<>>
             /\ player'.mouseup = <<>>
             /\ ~player'.isDragging]_vars

\* a drag is in progress and has moved the position to the middle of the clip
C18_Witness ==
    /\ player.isDragging
    /\ page.dragging
    /\ player.mousemove = <<"handleDrag">>
    /\ player.mouseup = <<"stopDrag">>
    /\ audio.paused
    /\ audio.currentTime = 1

\* a step in which seekToPosition is called with the coordinate
SeekStep(clientX) ==
    \/ ProgressClicked(clientX)
    \/ player.isDragging /\ PointerMoved(clientX)

\* C19: seekToPosition leaves the position within the clip, at its start for a
\* pointer left of the container and at its end for one right of it, and leaves
\* position and progress display alone while the duration is not known.
C19_SeekWithinClip ==
    [][\A clientX \in PointerXs :
         SeekStep(clientX) =>
             IF audio.metadata
             THEN /\ audio'.currentTime \in 0..MaxTime
                  /\ clientX <= ContainerLeft => audio'.currentTime = 0
                  /\ clientX >= ContainerLeft + ContainerWidth =>
                         audio'.currentTime = MaxTime
                  /\ page'.progress = (audio'.currentTime * 100) \div MaxTime
             ELSE /\ audio'.currentTime = audio.currentTime
                  /\ page'.progress = page.progress]_vars

\* a media element that never played is at the end of its clip
C19_Witness ==
    /\ audio.metadata
    /\ audio.paused
    /\ ~player.windowIsPlaying
    /\ audio.currentTime = MaxTime
    /\ page.progress = 100

\* C20: a move of the volume slider while the controller is muted leaves it
\* unmuted, with the volume at the slider's value.
C20_SliderUnmutes ==
    [][\A position \in SliderPositions :
         (volume.isMuted /\ SliderMoved(position)) =>
             /\ ~volume'.isMuted
             /\ volume'.slider = position
             /\ volume'.level = position]_vars

\* unmuted by the slider: the volume is neither silent nor the one that muting
\* remembered, which an unmute by the button would have set
C20_Witness ==
    /\ ~volume.isMuted
    /\ volume.button # "muted"
    /\ volume.level = volume.slider
    /\ volume.level \notin {0, volume.lastVolume}
    /\ volume.lastVolume \notin {0, FullVolume}

\* C21: whenever the controller is muted, the volume of the media element is 0
\* and the slider shows 0.
C21_MutedIsSilent ==
    volume.isMuted => volume.level = 0 /\ volume.slider = 0

\* muted from a volume the slider had set, after the slider was moved and the
\* button clicked
C21_Witness ==
    /\ volume.isMuted
    /\ volume.level = 0
    /\ volume.slider = 0
    /\ volume.button = "muted"
    /\ volume.lastVolume \notin {0, DefaultVolume, FullVolume}

\* the records of the tabs, each tab parsed by itself
ParsedSheets == [tab \in Tabs |-> csvToObjects(responses[tab])]

\* C22: once every retrieval has answered and loadAllTabs has gone on, in
\* whatever order the answers came, the application is initialized, the roster
\* and dateContent are the transform of the tables, and the selection is the
\* default one: the first date, and the first roster station with an entry
\* under it.
C22_LoadDeterministic ==
    ((\A tab \in Tabs : fetchState[tab] = "done") /\ loadPc # "awaiting") =>
        /\ loadPc = "done"
        /\ stations = TransformStations(ParsedSheets)
        /\ dateContent = TransformDates(ParsedSheets, 1, EmptyObject)
        /\ page.selectDate = Feb22
        /\ page.stationList = ListedUnder(Feb22)
        /\ page.currentStationId =
              (IF ListedUnder(Feb22) # <<>> THEN ListedUnder(Feb22)[1] ELSE Undefined)
        /\ audio.src =
              (IF ListedUnder(Feb22) # <<>>
               THEN DynamicData(dateContent, Feb22, ListedUnder(Feb22)[1]).audioUrl
               ELSE Undefined)

\* the load is over, the roster is full and the default selection is the last
\* station of the roster, the only one with an entry under the first date
C22_Witness ==
    /\ loadPc = "done"
    /\ \A tab \in Tabs : fetchState[tab] = "done"
    /\ Len(stations) = MaxStations
    /\ page.selectDate = Feb22
    /\ page.stationList = <<StationIdOf(MaxStations)>>
    /\ page.currentStationId = StationIdOf(MaxStations)

\* some selectStation call goes through in this step
SomeSelectedStep ==
    \E stationId \in {stations'[i].id : i \in 1..Len(stations')} :
        SelectedStep(stationId)

\* C23: after a selectStation that goes through, with no error event of the media
\* element since the listeners now pending were registered, at most one one-shot
\* error listener of selectStation is pending on the element.
C23_OneErrorListener ==
    [][SomeSelectedStep => audio'.errorListeners <= 1]_vars

=============================================================================
